---- MODULE Spec2Model ----
(***************************************************************************)
(* Proof-of-work demo (interactive/bitcoin-pow-demo/src/main.ts).          *)
(*                                                                         *)
(* The model follows the event loop of the page: a step is what runs       *)
(* between two suspension points.  mineBlock suspends at                   *)
(*   - `await doubleSha256Bytes(serialized)`        (pc = "hashing")       *)
(*   - `await new Promise(r => setTimeout(r, 0))`   (pc = "yielding")      *)
(* and the click handlers (startMining, stopMining, selectPreset,          *)
(* applyCustomBits) run as whole steps between those points.               *)
(*                                                                         *)
(* Strings are sequences of one-character strings; a hex string of 64      *)
(* characters is a 256-bit value, most significant digit first.            *)
(* BigInt values are sequences of hex digit values without leading zeros.  *)
(* doubleSha256Bytes awaits the platform digest twice; no handler can tell  *)
(* the two waits apart, so they are one suspension point.  mineBlock's     *)
(* maxAttempts is drawn from MaxAttemptsChoices (integers; startMining     *)
(* itself always uses the default of 100000000).                           *)
(* Numbers that fill a 32-bit field (bits, nonce) are held as the signed    *)
(* 32-bit integer with the same bit pattern; other Numbers are modelled as *)
(* IEEE 754 doubles where the code computes with them.                     *)
(* Spec is the page; FnSpec evaluates the pure functions on their own;     *)
(* RomixSpec runs scryptROMix, one loop pass per step.                     *)
(* Wall-clock time (performance.now) is not modelled: the test             *)
(* `now - lastUpdateTime > 50` is a free choice, and the time fields of    *)
(* MiningStats are left out.                                               *)
(***************************************************************************)
EXTENDS Integers, Sequences, FiniteSets, TLC

VARIABLES
    isMining,            \* main.ts:654
    shouldStopMining,    \* main.ts:655
    currentMiningStats,  \* main.ts:656, the hashesComputed field
    currentBits,         \* main.ts:1061
    pc,                  \* position of the mineBlock invocation
    header,              \* the BlockHeader mineBlock works on
    target,              \* mineBlock local
    nonce,               \* mineBlock local
    hash,                \* mineBlock local
    i,                   \* mineBlock local, position inside the batch
    maxAttempts,         \* mineBlock parameter
    result,              \* the MiningResult the last search returned
    shown,               \* what showResult / addToHistory rendered last
    inFlight,            \* number of mineBlock invocations not yet returned
    tried,               \* observer: nonces written to the header, in order
    progress,            \* observer: the onProgress calls of this search
    stopAt,              \* observer: hashesComputed when the signal was set
    stopInFlight,        \* observer: a hash was in flight at that moment
    startIgnored,        \* observer: startMining returned early in this search
    staleStop,           \* observer: the signal was set when this search started
    call,                \* the pure function under evaluation ("none" in the page)
    args,                \* its arguments
    ret,                 \* what it returned or threw (Pending before the call)
    romix                \* the locals of a scryptROMix call, with observers

vars == <<isMining, shouldStopMining, currentMiningStats, currentBits, pc,
          header, target, nonce, hash, i, maxAttempts, result, shown,
          inFlight, tried, progress, stopAt, stopInFlight, startIgnored,
          staleStop, call, args, ret, romix>>

\* the variables of the function-level specifications
callVars == <<call, args, ret, romix>>

\* the variables of the page
pageVars == <<isMining, shouldStopMining, currentMiningStats, currentBits, pc,
              header, target, nonce, hash, i, maxAttempts, result, shown,
              inFlight, tried, progress, stopAt, stopInFlight, startIgnored,
              staleStop>>

----------------------------------------------------------------------------
(* Bounds and program constants *)

\* largest maxAttempts handed to mineBlock (the default is 100000000)
MaxNonce == 103

batchSize == 100

DIFFICULTY_PRESETS == <<545259519, 520159231, 503382015, 486604799, 469827583>>

MAX_TARGET_BITS == 486604799

VERSION == 536870912

\* presets the model clicks on: "Very Easy" and "Easy"
PresetChoices == {DIFFICULTY_PRESETS[1], DIFFICULTY_PRESETS[2]}

\* values typed into the custom-bits field, after parseInt
CustomBitsChoices == {0, DIFFICULTY_PRESETS[3]}

MaxAttemptsChoices == {-1, 0, 1, MaxNonce}

Timestamps == {1700000000}

----------------------------------------------------------------------------
(* String helpers (JavaScript String methods) *)

HexDigits == <<"0", "1", "2", "3", "4", "5", "6", "7",
               "8", "9", "a", "b", "c", "d", "e", "f">>

Min(a, b) == IF a < b THEN a ELSE b

repeat(c, n) == [k \in 1..n |-> c]

padStart(s, len, c) == IF Len(s) >= len THEN s ELSE repeat(c, len - Len(s)) \o s

padEnd(s, len, c) == IF Len(s) >= len THEN s ELSE s \o repeat(c, len - Len(s))

slice(s, from, to) == SubSeq(s, from + 1, Min(to, Len(s)))

RECURSIVE toString16(_)
toString16(n) ==
    IF n < 16 THEN <<HexDigits[n + 1]>>
    ELSE toString16(n \div 16) \o <<HexDigits[(n % 16) + 1]>>

HexVal(c) == CHOOSE d \in 0..15 : HexDigits[d + 1] = c

RECURSIVE Pow2(_)
Pow2(n) == IF n = 0 THEN 1 ELSE 2 * Pow2(n - 1)

----------------------------------------------------------------------------
(* BigInt('0x' + hex) and the comparison of two BigInt values *)

\* the digits from the first non-zero one on; zero is the empty sequence
StripZeros(ds) ==
    LET nz == {k \in 1..Len(ds) : ds[k] # 0}
    IN  IF nz = {} THEN <<>>
        ELSE SubSeq(ds, CHOOSE k \in nz : \A m \in nz : k <= m, Len(ds))

BigIntFromHex(hex) == StripZeros([k \in 1..Len(hex) |-> HexVal(hex[k])])

BigLess(a, b) ==
    \/ Len(a) < Len(b)
    \/ /\ Len(a) = Len(b)
       /\ \E k \in 1..Len(a) :
            /\ a[k] < b[k]
            /\ \A m \in 1..(k - 1) : a[m] = b[m]

BigLeq(a, b) == a = b \/ BigLess(a, b)

\* BigInt(n) of a non-negative integer
RECURSIVE BigOfInt(_)
BigOfInt(n) == IF n = 0 THEN <<>> ELSE BigOfInt(n \div 16) \o <<n % 16>>

\* The digit loops below split their range in two halves and hand the carry
\* (borrow, remainder) from one half to the other.  The loops that run from
\* the lowest digit upwards collect their digits lowest first.

Reverse(ds) == [k \in 1..Len(ds) |-> ds[Len(ds) + 1 - k]]

\* digits hi..lo of a * m + carry for a small m >= 0: <<digits, carry out>>
RECURSIVE BigMulSmallRange(_, _, _, _, _)
BigMulSmallRange(a, m, lo, hi, carry) ==
    IF lo = hi
    THEN LET v == a[lo] * m + carry IN <<(<<v % 16>>), v \div 16>>
    ELSE LET mid == (lo + hi) \div 2
             right == BigMulSmallRange(a, m, mid + 1, hi, carry)
             left == BigMulSmallRange(a, m, lo, mid, right[2])
         IN  <<right[1] \o left[1], left[2]>>

BigMulSmall(a, m) ==
    IF a = <<>> \/ m = 0 THEN <<>>
    ELSE LET r == BigMulSmallRange(a, m, 1, Len(a), 0)
         IN  StripZeros(BigOfInt(r[2]) \o Reverse(r[1]))

Max(a, b) == IF a < b THEN b ELSE a

\* a with zeros in front, n digits long
ZeroExtend(a, n) == [k \in 1..(n - Len(a)) |-> 0] \o a

\* digits hi..lo of a + b + carry for a, b of one length
RECURSIVE BigAddRange(_, _, _, _, _)
BigAddRange(a, b, lo, hi, carry) ==
    IF lo = hi
    THEN LET v == a[lo] + b[lo] + carry IN <<(<<v % 16>>), v \div 16>>
    ELSE LET mid == (lo + hi) \div 2
             right == BigAddRange(a, b, mid + 1, hi, carry)
             left == BigAddRange(a, b, lo, mid, right[2])
         IN  <<right[1] \o left[1], left[2]>>

BigAdd(a, b) ==
    LET n == Max(Len(a), Len(b))
    IN  IF a = <<>> THEN b
        ELSE IF b = <<>> THEN a
        ELSE LET r == BigAddRange(ZeroExtend(a, n), ZeroExtend(b, n), 1, n, 0)
             IN  StripZeros(<<r[2]>> \o Reverse(r[1]))

\* digits hi..lo of a - b - borrow for a, b of one length
RECURSIVE BigSubRange(_, _, _, _, _)
BigSubRange(a, b, lo, hi, borrow) ==
    IF lo = hi
    THEN LET v == a[lo] - b[lo] - borrow
         IN  IF v < 0 THEN <<(<<v + 16>>), 1>> ELSE <<(<<v>>), 0>>
    ELSE LET mid == (lo + hi) \div 2
             right == BigSubRange(a, b, mid + 1, hi, borrow)
             left == BigSubRange(a, b, lo, mid, right[2])
         IN  <<right[1] \o left[1], left[2]>>

\* a - b for a >= b
BigSub(a, b) ==
    IF a = <<>> THEN <<>>
    ELSE StripZeros(Reverse(BigSubRange(a, ZeroExtend(b, Len(a)), 1, Len(a),
                                        0)[1]))

\* the largest digit q with q * b <= r, for r < 16 * b
QuotientDigit(r, b) ==
    CHOOSE q \in 0..15 :
        /\ BigLeq(BigMulSmall(b, q), r)
        /\ q = 15 \/ BigLess(r, BigMulSmall(b, q + 1))

\* long division by b # 0 over digits lo..hi of a, entered with remainder
\* rem: <<quotient digits, remainder>>
RECURSIVE BigDivModRange(_, _, _, _, _)
BigDivModRange(a, b, lo, hi, rem) ==
    IF lo = hi
    THEN LET r == StripZeros(rem \o <<a[lo]>>)
             q == QuotientDigit(r, b)
         IN  <<(<<q>>), BigSub(r, BigMulSmall(b, q))>>
    ELSE LET mid == (lo + hi) \div 2
             left == BigDivModRange(a, b, lo, mid, rem)
             right == BigDivModRange(a, b, mid + 1, hi, left[2])
         IN  <<left[1] \o right[1], right[2]>>

\* <<a / b, a % b>> for BigInt a >= 0, b > 0
BigDivMod(a, b) ==
    IF a = <<>> THEN <<(<<>>), (<<>>)>>
    ELSE LET r == BigDivModRange(a, b, 1, Len(a), <<>>)
         IN  <<StripZeros(r[1]), r[2]>>

\* a / b on BigInt values (truncating; the operands here are non-negative)
BigDiv(a, b) == BigDivMod(a, b)[1]

----------------------------------------------------------------------------
(* Compact target decoding *)

\* `bits` is the 32-bit word as ToInt32 sees it (words from 2^31 on are
\* negative): `>>` and `&` convert their operand that way before they act,
\* and \div and % are the floor division and the non-negative remainder.
coeffHexUnpadded(coefficient) == toString16(coefficient)
coeffHex(coefficient) == padStart(toString16(coefficient), 6, "0")

shiftBytesOfExponentLess2(exponent) == exponent - 2
shiftBytesOf(exponent) == exponent - 3

overflowsBelowMinus2(coeffPosition) == coeffPosition < -2
overflows(coeffPosition) == coeffPosition < 0

bitsToTarget(bits) ==
    LET exponent == (bits \div 16777216) % 256
        signed == ((bits \div 8388608) % 2) = 1
        coefficient == IF signed THEN 0 ELSE bits % 8388608
        shiftBytes == shiftBytesOf(exponent)
        coeffPosition == 64 - (shiftBytes * 2) - 6
        tgt == IF exponent <= 3
               THEN padStart(toString16(coefficient \div Pow2(8 * (3 - exponent))),
                             64, "0")
               ELSE IF overflows(coeffPosition)
                    THEN repeat("f", 64)
                    ELSE repeat("0", coeffPosition)
                         \o coeffHex(coefficient)
                         \o repeat("0", shiftBytes * 2)
    IN slice(tgt, 0, 64)

hashMeetsTargetStrict(hashHex, targetHex) ==
    BigLess(BigIntFromHex(hashHex), BigIntFromHex(targetHex))
hashMeetsTarget(hashHex, targetHex) ==
    BigLeq(BigIntFromHex(hashHex), BigIntFromHex(targetHex))

----------------------------------------------------------------------------
(* The header and its double SHA-256 *)

\* crypto.getRandomValues: the previous-block hashes the model draws
PrevHashChoices == {repeat(HexDigits[k], 64) : k \in 11..14}

\* what is typed into the block-data field ("" selects the default text)
BlockDataChoices == {<<>>}

DefaultBlockData ==
    <<"A", "l", "i", "c", "e", " ", "p", "a", "y", "s", " ",
      "B", "o", "b", " ", "1", " ", "B", "T", "C">>

createBlockHeader(blockData, previousHash, bits, now) ==
    [version |-> VERSION,
     previousBlockHash |-> IF previousHash = <<>> THEN repeat("0", 64)
                           ELSE previousHash,
     merkleRoot |-> slice(padEnd(blockData, 64, "0"), 0, 64),
     timestamp |-> now,
     bits |-> bits,
     nonce |-> 0]

\* digests the hash function is allowed to produce in the model
DigestLow == padStart(<<"1">>, 64, "0")
DigestEdge == bitsToTarget(DIFFICULTY_PRESETS[2])
DigestMid == slice(DigestEdge, 0, 63) \o <<"1">>
DigestHigh == repeat("f", 64)

(* bytesToHex(reverseBytes(doubleSha256Bytes(serializeBlockHeader(h)))):    *)
(* SHA-256 is the platform's; the model fixes one function of the header    *)
(* per previous-block hash, so that each drawn header has its own digests.  *)
doubleSha256Display(h) ==
    LET p == h.previousBlockHash[1]
        n == h.nonce
    IN  CASE p = "a" -> DigestHigh
          [] p = "b" -> IF n \in {2, 5} THEN DigestLow ELSE DigestHigh
          [] p = "c" -> IF n = 99 THEN DigestEdge ELSE DigestHigh
          [] OTHER   -> IF n = 0 THEN DigestMid
                        ELSE IF n = 100 THEN DigestEdge
                        ELSE IF n = 102 THEN DigestLow
                        ELSE DigestHigh

----------------------------------------------------------------------------
NoResult == [success |-> FALSE, nonce |-> -1, hash |-> <<>>,
             stats |-> [hashesComputed |-> -1]]

\* `resultEl.innerHTML = ''`: nothing is rendered in the result panel
NothingShown == [result |-> NoResult, bits |-> 0]

NoHeader == createBlockHeader(<<>>, <<>>, 0, 0)

InitPage ==
    /\ isMining = FALSE
    /\ shouldStopMining = FALSE
    /\ currentMiningStats = [hashesComputed |-> 0]
    /\ currentBits = DIFFICULTY_PRESETS[2]
    /\ pc = "idle"
    /\ header = NoHeader
    /\ target = <<>>
    /\ nonce = 0
    /\ hash = <<>>
    /\ i = 0
    /\ maxAttempts = 0
    /\ result = NoResult
    /\ shown = NothingShown
    /\ inFlight = 0
    /\ tried = <<>>
    /\ progress = <<>>
    /\ stopAt = -1
    /\ stopInFlight = FALSE
    /\ startIgnored = FALSE
    /\ staleStop = FALSE

\* the outcome of a call: a value, or the error thrown
Pending == [threw |-> "pending", value |-> <<>>]
Return(v) == [threw |-> "none", value |-> v]
Throw(e) == [threw |-> e, value |-> <<>>]

\* no scryptROMix call is running
NoROMix == [pc |-> "none", B |-> <<>>, V |-> <<>>, i |-> 0, applied |-> 0,
            picked |-> <<>>]

Init ==
    /\ InitPage
    /\ call = "none"
    /\ args = <<>>
    /\ ret = Pending
    /\ romix = NoROMix

----------------------------------------------------------------------------
(* Pieces of mineBlock *)

\* the handlers run only while mineBlock is suspended or not running
SuspensionPoints == {"idle", "hashing", "yielding"}

startMiningGuardNone == FALSE
startMiningGuard == isMining

freshStatsStale == currentMiningStats
freshStats == [hashesComputed |-> 0]

searchTargetMax(h) == bitsToTarget(MAX_TARGET_BITS)
searchTarget(h) == bitsToTarget(h.bits)

whileCondition(n, max, stop) == n < max /\ ~stop

forConditionUncancelled(k, n, max, stop) == k < batchSize /\ n < max
forConditionOffByOne(k, n, max, stop) == k < batchSize /\ n <= max /\ ~stop
forCondition(k, n, max, stop) == k < batchSize /\ n < max /\ ~stop

withNonceRefreshed(h, n) == [h EXCEPT !.nonce = n, !.bits = currentBits]
withNonce(h, n) == [h EXCEPT !.nonce = n]

countHash(stats) == [stats EXCEPT !.hashesComputed = @ + 1]

foundResultNext(n, h, stats) ==
    [success |-> TRUE, nonce |-> n + 1, hash |-> h, stats |-> stats]
foundResult(n, h, stats) ==
    [success |-> TRUE, nonce |-> n, hash |-> h, stats |-> stats]

failureResult(n, h, stats) ==
    [success |-> FALSE, nonce |-> n, hash |-> h, stats |-> stats]

\* the callback startMining passes: updateMiningProgress(.., currentBits)
onProgress(log, n, h, stats) ==
    Append(log, [nonce |-> n, hash |-> h, stats |-> stats, bits |-> currentBits])

foundReportNonceStale(n) == n - 1
foundReportNonce(n) == n

batchReportNonceNext(n) == n
batchReportNonce(n) == n - 1

\* header.nonce = nonce; serialize; await doubleSha256Bytes(..)
BeginAttempt(h, n, k, tr) ==
    /\ header' = withNonce(h, n)
    /\ nonce' = n
    /\ i' = k
    /\ tried' = Append(tr, n)
    /\ pc' = "hashing"

\* mineBlock returns res; startMining resumes after `await mineBlock(..)`
FinishStillInFlight(res, fl) ==
    /\ result' = res
    /\ shown' = [result |-> res, bits |-> currentBits]
    /\ isMining' = FALSE
    /\ inFlight' = fl
    /\ pc' = "idle"
Finish(res, fl) ==
    /\ result' = res
    /\ shown' = [result |-> res, bits |-> currentBits]
    /\ isMining' = FALSE
    /\ inFlight' = fl - 1
    /\ pc' = "idle"

\* the head of the while loop, then the head of the for loop with i = 0
LoopTop(h, n, max, stop, tr, fl, hsh, stats, res, shw) ==
    IF whileCondition(n, max, stop)
    THEN /\ IF forCondition(0, n, max, stop)
            THEN BeginAttempt(h, n, 0, tr)
            ELSE /\ pc' = "batchEnd"
                 /\ header' = h
                 /\ nonce' = n
                 /\ i' = 0
                 /\ tried' = tr
         /\ isMining' = TRUE
         /\ inFlight' = fl
         /\ result' = res
         /\ shown' = shw
    ELSE /\ Finish(failureResult(n, hsh, stats), fl)
         /\ header' = h
         /\ nonce' = n
         /\ i' = 0
         /\ tried' = tr

----------------------------------------------------------------------------
(* Handlers *)

\* startMining with the previous-block hash and the maxAttempts of mineBlock
\* drawn from the given sets
\* shouldStopMining = false, line 1079
signalAtStartKept == shouldStopMining
signalAtStart == FALSE

StartMiningWith(prevHashes, attemptsChoices) ==
    /\ pc \in SuspensionPoints
    /\ UNCHANGED callVars
    /\ IF startMiningGuard
       THEN /\ startIgnored' = TRUE
            /\ UNCHANGED <<isMining, shouldStopMining, currentMiningStats,
                           currentBits, pc, header, target, nonce, hash, i,
                           maxAttempts, result, shown, inFlight, tried,
                           progress, stopAt, stopInFlight, staleStop>>
       ELSE \E blockData \in BlockDataChoices, prevHash \in prevHashes,
               now \in Timestamps, attempts \in attemptsChoices :
              LET data == IF blockData = <<>> THEN DefaultBlockData
                          ELSE blockData
                  h == createBlockHeader(data, prevHash, currentBits, now)
              IN  /\ shouldStopMining' = signalAtStart
                  /\ currentMiningStats' = freshStats
                  /\ target' = searchTarget(h)
                  /\ hash' = <<>>
                  /\ maxAttempts' = attempts
                  /\ progress' = <<>>
                  /\ stopAt' = -1
                  /\ stopInFlight' = FALSE
                  /\ startIgnored' = FALSE
                  /\ staleStop' = shouldStopMining
                  /\ LoopTop(h, 0, attempts, signalAtStart, <<>>,
                             inFlight + 1,
                             <<>>, freshStats, NoResult, NothingShown)
                  /\ UNCHANGED currentBits

StartMining == StartMiningWith(PrevHashChoices, MaxAttemptsChoices)

StopMining ==
    /\ pc \in SuspensionPoints
    /\ UNCHANGED callVars
    /\ shouldStopMining' = TRUE
    /\ IF pc # "idle" /\ ~shouldStopMining
       THEN /\ stopAt' = currentMiningStats.hashesComputed
            /\ stopInFlight' = (pc = "hashing")
       ELSE UNCHANGED <<stopAt, stopInFlight>>
    /\ UNCHANGED <<isMining, currentMiningStats, currentBits, pc, header,
                   target, nonce, hash, i, maxAttempts, result, shown,
                   inFlight, tried, progress, startIgnored,
                   staleStop>>

SelectPreset ==
    /\ pc \in SuspensionPoints
    /\ UNCHANGED callVars
    /\ \E bits \in PresetChoices : currentBits' = bits
    /\ UNCHANGED <<isMining, shouldStopMining, currentMiningStats, pc, header,
                   target, nonce, hash, i, maxAttempts, result, shown,
                   inFlight, tried, progress, stopAt, stopInFlight,
                   startIgnored,
                   staleStop>>

ApplyCustomBits ==
    /\ pc \in SuspensionPoints
    /\ UNCHANGED callVars
    /\ \E bits \in CustomBitsChoices :
         currentBits' = IF bits <= 0 THEN currentBits ELSE bits
    /\ UNCHANGED <<isMining, shouldStopMining, currentMiningStats, pc, header,
                   target, nonce, hash, i, maxAttempts, result, shown,
                   inFlight, tried, progress, stopAt, stopInFlight,
                   startIgnored,
                   staleStop>>

----------------------------------------------------------------------------
(* mineBlock resumed *)

\* the digest arrives: lines 706-727
HashResolved ==
    /\ pc = "hashing"
    /\ UNCHANGED callVars
    /\ LET h1 == doubleSha256Display(header)
           stats1 == countHash(currentMiningStats)
           n1 == nonce + 1
           k1 == i + 1
       IN  /\ hash' = h1
           /\ currentMiningStats' = stats1
           /\ IF hashMeetsTarget(h1, target)
              THEN /\ progress' = onProgress(progress, foundReportNonce(nonce),
                                             h1, stats1)
                   /\ Finish(foundResult(nonce, h1, stats1), inFlight)
                   /\ UNCHANGED <<header, nonce, i, tried>>
              ELSE /\ progress' = progress
                   /\ IF forCondition(k1, n1, maxAttempts, shouldStopMining)
                      THEN /\ BeginAttempt(header, n1, k1, tried)
                           /\ UNCHANGED <<isMining, inFlight, result, shown>>
                      ELSE /\ pc' = "batchEnd"
                           /\ nonce' = n1
                           /\ i' = k1
                           /\ UNCHANGED <<header, tried, isMining, inFlight,
                                          result, shown>>
    /\ UNCHANGED <<shouldStopMining, currentBits, target, maxAttempts,
                   stopAt, stopInFlight, startIgnored,
                   staleStop>>

\* after the for loop: lines 729-737, then the while test again
BatchEnd ==
    /\ pc = "batchEnd"
    /\ UNCHANGED callVars
    /\ \E timeUp \in BOOLEAN :
         IF timeUp
         THEN /\ progress' = onProgress(progress, batchReportNonce(nonce),
                                        hash, currentMiningStats)
              /\ pc' = "yielding"
              /\ UNCHANGED <<header, nonce, i, tried, isMining, inFlight,
                             result, shown>>
         ELSE /\ progress' = progress
              /\ LoopTop(header, nonce, maxAttempts, shouldStopMining, tried,
                         inFlight, hash, currentMiningStats, result, shown)
    /\ UNCHANGED <<shouldStopMining, currentMiningStats, currentBits, target,
                   hash, maxAttempts, stopAt, stopInFlight, startIgnored,
                   staleStop>>

\* the zero-delay timer fires: back to the while test
TimeoutResolved ==
    /\ pc = "yielding"
    /\ UNCHANGED callVars
    /\ LoopTop(header, nonce, maxAttempts, shouldStopMining, tried, inFlight,
               hash, currentMiningStats, result, shown)
    /\ UNCHANGED <<shouldStopMining, currentMiningStats, currentBits, target,
                   hash, maxAttempts, progress, stopAt, stopInFlight,
                   startIgnored,
                   staleStop>>

Next ==
    \/ StartMining
    \/ StopMining
    \/ SelectPreset
    \/ ApplyCustomBits
    \/ HashResolved
    \/ BatchEnd
    \/ TimeoutResolved

Spec == Init /\ [][Next]_vars

TypeOK ==
    /\ isMining \in BOOLEAN
    /\ shouldStopMining \in BOOLEAN
    /\ pc \in {"idle", "hashing", "batchEnd", "yielding"}
    /\ inFlight \in 0..1
    /\ Len(target) \in {0, 64}
    /\ Len(hash) \in {0, 64}

----------------------------------------------------------------------------
(* Vocabulary of the properties *)

\* mineBlock has returned and startMining has rendered the result
Returned == pc = "idle" /\ result # NoResult

HashesComputed == currentMiningStats.hashesComputed

\* the digest of the header under search with nonce n
DigestOf(n) == doubleSha256Display([header EXCEPT !.nonce = n])

\* hashMeetsTarget(d, bitsToTarget(b)), tabulated once over the digests and
\* the bits that occur in the model
MeetsBits ==
    [d \in {DigestLow, DigestEdge, DigestMid, DigestHigh},
     b \in PresetChoices \cup CustomBitsChoices |->
        hashMeetsTarget(d, bitsToTarget(b))]

\* nonce n gives a digest that meets the target decoded from header.bits
Qualifies(n) == MeetsBits[DigestOf(n), header.bits]

\* the cancellation signal was not set while this search was running
NotCancelled == stopAt = -1

\* the search ended because the loop observed the signal
Cancelled ==
    /\ Returned
    /\ ~result.success
    /\ stopAt >= 0
    /\ result.nonce < maxAttempts

UpTo(n) == [k \in 1..n |-> k - 1]

Last(s) == s[Len(s)]

----------------------------------------------------------------------------
\* the smallest qualifying nonce in n..(max - 1), or -1
RECURSIVE FirstQualifying(_, _)
FirstQualifying(n, max) ==
    IF n >= max THEN -1
    ELSE IF Qualifies(n) THEN n ELSE FirstQualifying(n + 1, max)

(* C1: without cancellation, when n is the smallest nonce below maxAttempts *)
(* whose digest meets the target, the search tries 0, 1, .., n in order and *)
(* returns success with nonce n, the digest of n and hashesComputed = n+1. *)
C1_FindsSmallestNonce ==
    (Returned /\ NotCancelled) =>
      LET n == FirstQualifying(0, maxAttempts)
      IN  n >= 0 =>
            /\ result = [success |-> TRUE, nonce |-> n, hash |-> DigestOf(n),
                         stats |-> [hashesComputed |-> n + 1]]
            /\ tried = UpTo(n + 1)

\* found in the second batch, with a later qualifying nonce left untried
C1_Witness ==
    /\ Returned
    /\ NotCancelled
    /\ result.success
    /\ result.nonce = batchSize
    /\ Qualifies(batchSize + 2)

(* C2: success is returned only with a digest that meets the target decoded *)
(* from header.bits; failure only when no tried nonce met that target,      *)
(* cancelled or not.                                                        *)
C2_ResultMatchesTarget ==
    Returned =>
      /\ result.success => MeetsBits[result.hash, header.bits]
      /\ ~result.success =>
           \A n \in 0..(result.stats.hashesComputed - 1) : ~Qualifies(n)

\* a cancelled search that returned failure after real attempts
C2_Witness ==
    /\ Returned
    /\ ~result.success
    /\ stopAt >= 0
    /\ result.stats.hashesComputed >= batchSize

(* C3 as stated: once the signal is set during a search, the search returns *)
(* success = false within one batch of further attempts.                    *)
C3_Original ==
    (Returned /\ stopAt >= 0)
    => /\ ~result.success
       /\ result.stats.hashesComputed - stopAt <= batchSize

(* C3: once the signal is set during a search, the search computes at most  *)
(* one batch of further attempts, and it returns success = false unless the *)
(* attempt in flight when the signal was set meets the target.              *)
C3_CancelWithinBatch ==
    (Returned /\ stopAt >= 0)
    => /\ result.stats.hashesComputed - stopAt <= batchSize
       /\ result.success => (stopInFlight /\ result.nonce = stopAt)

\* cancelled during an attempt that then succeeded
C3_Witness ==
    /\ Returned
    /\ stopAt >= 0
    /\ stopInFlight
    /\ result.success
    /\ result.nonce = stopAt

C6_ProgressIncreasing ==
    /\ [](\A a, b \in 1..Len(progress) :
            a < b => progress[a].nonce < progress[b].nonce)
    /\ [][Len(progress') > Len(progress) => (pc # "idle" /\ result = NoResult)]_vars

\* a periodic report at the batch boundary followed by a report of the
\* very next nonce
C6_Witness ==
    /\ Len(progress) = 2
    /\ progress[1].nonce = batchSize - 1
    /\ progress[2].nonce = batchSize

(* C7: without cancellation and without a qualifying nonce the search      *)
(* returns failure after exactly max(0, maxAttempts) hashes; for           *)
(* maxAttempts <= 0 at once, with no hash and no onProgress call.          *)
C7_ExhaustsExactly ==
    (Returned /\ NotCancelled /\ FirstQualifying(0, maxAttempts) = -1)
    => /\ ~result.success
       /\ result.stats.hashesComputed = (IF maxAttempts > 0 THEN maxAttempts ELSE 0)
       /\ tried = UpTo(result.stats.hashesComputed)
       /\ maxAttempts <= 0 => (progress = <<>> /\ hash = <<>>)

\* a negative bound: returned at once
C7_Witness ==
    /\ Returned
    /\ NotCancelled
    /\ maxAttempts < 0
    /\ result = failureResult(0, <<>>, [hashesComputed |-> 0])

(* C8: hashesComputed starts at 0, never decreases and grows by one per    *)
(* attempt; after every attempt, in every snapshot and in the result it is *)
(* the number of digests computed, the last attempted nonce plus one.      *)
C8_HashCount ==
    /\ [](isMining =>
            /\ HashesComputed = Len(tried) - (IF pc = "hashing" THEN 1 ELSE 0)
            /\ tried = UpTo(Len(tried)))
    /\ [](\A k \in 1..Len(progress) :
            progress[k].stats.hashesComputed = progress[k].nonce + 1)
    /\ [](Returned => /\ result.stats.hashesComputed = Len(tried)
                      /\ result.stats = currentMiningStats)
    /\ [][/\ (~isMining /\ isMining') => HashesComputed' = 0
          /\ isMining => HashesComputed' \in {HashesComputed, HashesComputed + 1}
          /\ (isMining /\ Len(tried') > Len(tried) /\ pc = "hashing")
               => HashesComputed' = HashesComputed + 1]_vars

\* a second batch under way: more than batchSize digests counted
C8_Witness ==
    /\ isMining
    /\ pc = "hashing"
    /\ HashesComputed = batchSize + 1
    /\ Len(progress) = 1

(* C9: at most one mineBlock invocation is in flight; startMining called   *)
(* while isMining starts no search and leaves the mining state alone.      *)
C9_OneSearchAtATime ==
    /\ [](inFlight <= 1)
    /\ [](inFlight = (IF isMining THEN 1 ELSE 0))
    /\ [][(~startIgnored /\ startIgnored')
            => /\ isMining
               /\ UNCHANGED <<isMining, shouldStopMining, currentMiningStats,
                              inFlight, pc, header, target, nonce, hash, i,
                              maxAttempts, tried, progress>>]_vars

\* startMining was clicked during a search that had been told to stop
C9_Witness ==
    /\ startIgnored
    /\ isMining
    /\ shouldStopMining
    /\ inFlight = 1
    /\ HashesComputed > 0

(* C10: the search writes no header field but nonce, and the target it     *)
(* compares against stays the one decoded from header.bits at the start.   *)
C10_OnlyNonceMutated ==
    /\ [](isMining => target = bitsToTarget(header.bits))
    /\ [][isMining => /\ header'.version = header.version
                      /\ header'.previousBlockHash = header.previousBlockHash
                      /\ header'.merkleRoot = header.merkleRoot
                      /\ header'.timestamp = header.timestamp
                      /\ header'.bits = header.bits
                      /\ target' = target]_vars

\* the preset was changed while the search ran on
C10_Witness ==
    /\ isMining
    /\ header.nonce > 0
    /\ currentBits # header.bits

(* C29 as stated: under any interleaving of selectPreset / applyCustomBits *)
(* with a search started by startMining, the bits used to render that      *)
(* search's progress and its final result (updateMiningProgress,           *)
(* showResult, addToHistory) are the bits of the header the search is      *)
(* mining against.                                                         *)
C29_Original ==
    /\ \A k \in 1..Len(progress) : progress[k].bits = header.bits
    /\ Returned => shown.bits = header.bits

----------------------------------------------------------------------------
(* Termination of a search *)

\* Each digest and each zero-delay timer eventually arrives, and the code
\* between two suspension points runs to the next one.
\* searches that end Exhausted ("a": no digest meets the target) and Found
\* in the second batch ("d"), and the search with maxAttempts = 0
LiveStartMining ==
    StartMiningWith({repeat("a", 64), repeat("d", 64)}, {0, MaxNonce})

LiveNext ==
    \/ LiveStartMining
    \/ StopMining
    \/ HashResolved
    \/ BatchEnd
    \/ TimeoutResolved

LiveSpec ==
    /\ Init /\ [][LiveNext]_vars
    /\ WF_vars(HashResolved)
    /\ WF_vars(BatchEnd)
    /\ WF_vars(TimeoutResolved)

\* the three ways a search ends
Found == Returned /\ result.success
Exhausted == Returned /\ ~result.success /\ result.nonce >= maxAttempts
StoppedEarly ==
    Returned /\ ~result.success /\ result.nonce < maxAttempts

(* C23: with every digest and every zero-delay timer eventually arriving, *)
(* a started search eventually returns; it returns once, as Found, as     *)
(* Exhausted or, only with the cancellation signal set, before maxAttempts *)
(* is reached; once it has returned, no hash is computed until the next    *)
(* search starts.                                                          *)
C23_SearchTerminates ==
    /\ (pc # "idle") ~> (pc = "idle" /\ Returned)
    /\ [](Returned => (StoppedEarly => (shouldStopMining /\ stopAt >= 0)))
    /\ [][(pc # "idle" /\ pc' = "idle")
            => /\ inFlight = 1
               /\ inFlight' = 0
               /\ result = NoResult
               /\ result' # NoResult]_vars
    /\ [][(pc # "idle" /\ pc' # "idle")
            => (result' = NoResult /\ inFlight' = 1)]_vars
    /\ [][pc = "idle"
            => \/ (tried' = tried /\ currentMiningStats' = currentMiningStats)
               \/ (Len(tried') <= 1 /\ currentMiningStats'.hashesComputed = 0)]_vars

\* a search that was stopped in its second batch has returned
C23_Witness ==
    /\ StoppedEarly
    /\ stopAt > batchSize
    /\ result.stats.hashesComputed = stopAt + 1
    /\ inFlight = 0
    /\ ~isMining

----------------------------------------------------------------------------
(* C24 as stated: in every result with hashesComputed >= 1, success or     *)
(* not, result.hash is the digest of the header with result.nonce.         *)
C24_Original ==
    (Returned /\ result.stats.hashesComputed >= 1)
    => result.hash = DigestOf(result.nonce)

(* C30: every search started through startMining begins with the         *)
(* cancellation signal cleared.  While a search runs and stopMining has    *)
(* not been called since it started, the signal is clear, whatever was     *)
(* called before; and a search ends before maxAttempts without a digest    *)
(* only if stopMining was called after it started.                         *)
C30_StartClearsSignal ==
    /\ (isMining /\ stopAt = -1) => ~shouldStopMining
    /\ StoppedEarly => stopAt >= 0

\* stopMining was called before the search started and not after: the
\* search ran to the end of the batch and beyond, and was not cancelled
C30_Witness ==
    /\ staleStop
    /\ Returned
    /\ stopAt = -1
    /\ ~StoppedEarly
    /\ result.stats.hashesComputed > batchSize

----------------------------------------------------------------------------
(* The functions called on their own                                       *)
(*                                                                         *)
(* FnSpec starts in a state that holds one call and its arguments, taken   *)
(* from the sets below, and its one step per function evaluates the call.  *)
(* The page is not running: its variables keep their initial values.       *)

\* the compact word with the given fields, as a signed 32-bit integer
CompactBits(exponent, negative, coefficient) ==
    (IF exponent >= 128 THEN exponent - 256 ELSE exponent) * 16777216
    + (IF negative THEN 8388608 ELSE 0) + coefficient

Exponents == 0..255

\* 23-bit coefficients: 0, one to three significant bytes, bit 15 set and
\* clear, low bytes zero and non-zero, divisors and non-divisors of 0xffff,
\* the largest
Coefficients == {0, 1, 35, 127, 128, 255, 256, 32767, 32768, 65534, 65535,
                 65536, 1193046, 8388607}

CompactFields == [exponent : Exponents, negative : BOOLEAN,
                  coefficient : Coefficients]

WordOf(f) == CompactBits(f.exponent, f.negative, f.coefficient)

Called(name) == call = name /\ ret.threw # "pending"

CallBitsToTarget ==
    /\ call = "bitsToTarget"
    /\ ret.threw = "pending"
    /\ ret' = Return(bitsToTarget(WordOf(args)))
    /\ UNCHANGED <<call, args, pageVars, romix>>

(* C11: bitsToTarget returns a string of exactly 64 characters, each a     *)
(* lowercase hex digit, for every 32-bit word: any exponent 0..255, any    *)
(* coefficient, sign flag set or clear.                                    *)
C11_TargetIs64HexDigits ==
    Called("bitsToTarget") =>
        /\ ret.threw = "none"
        /\ Len(ret.value) = 64
        /\ \A k \in 1..Len(ret.value) :
              \E d \in 1..16 : ret.value[k] = HexDigits[d]

\* a word above 2^31 with the sign flag set has been decoded
C11_Witness ==
    /\ Called("bitsToTarget")
    /\ args.exponent = 255
    /\ args.negative
    /\ args.coefficient = 8388607
    /\ Len(ret.value) = 64

\* a * 256^k by k multiplications
RECURSIVE BigTimesPow256(_, _)
BigTimesPow256(a, k) ==
    IF k = 0 THEN a ELSE BigMulSmall(BigTimesPow256(a, k - 1), 256)

\* floor(coefficient * 256^(exponent - 3))
CompactValue(coefficient, exponent) ==
    IF exponent >= 3
    THEN BigTimesPow256(BigOfInt(coefficient), exponent - 3)
    ELSE BigOfInt(coefficient \div Pow2(8 * (3 - exponent)))

GenesisFields == [exponent |-> 29, negative |-> FALSE, coefficient |-> 65535]

GenesisTarget == repeat("0", 8) \o repeat("f", 4) \o repeat("0", 52)

(* C12: with the sign flag clear and an exponent from 0 to 32 the integer  *)
(* value of bitsToTarget(bits) is floor(coefficient * 256^(exponent - 3)); *)
(* bitsToTarget(0x1d00ffff) is 00000000ffff followed by 52 zeros.          *)
C12_TargetValue ==
    Called("bitsToTarget") /\ ~args.negative /\ args.exponent <= 32 =>
        /\ BigIntFromHex(ret.value)
             = CompactValue(args.coefficient, args.exponent)
        /\ args = GenesisFields => ret.value = GenesisTarget

\* 0x1d00ffff has been decoded
C12_Witness ==
    /\ Called("bitsToTarget")
    /\ args = GenesisFields
    /\ WordOf(args) = MAX_TARGET_BITS
    /\ ret.value = GenesisTarget

----------------------------------------------------------------------------
(* Compact target encoding *)

\* str.replace(/^0+/, '')
stripLeadingZeros(str) ==
    LET nz == {k \in 1..Len(str) : str[k] # "0"}
    IN  IF nz = {} THEN <<>>
        ELSE SubSeq(str, CHOOSE k \in nz : \A m \in nz : k <= m, Len(str))

\* parseInt(str, 16) of a string of lowercase hex digits
RECURSIVE parseHex(_)
parseHex(str) ==
    IF str = <<>> THEN 0
    ELSE 16 * parseHex(SubSeq(str, 1, Len(str) - 1)) + HexVal(str[Len(str)])

highBitSetNever(coefficient) == FALSE
highBitSet(coefficient) == (coefficient \div 8388608) % 2 = 1

\* `(exponent << 24) | coefficient` as the signed 32-bit integer it yields
targetToBits(targetHex) ==
    LET nonZero == stripLeadingZeros(targetHex)
        orZero == IF nonZero = <<>> THEN <<"0">> ELSE nonZero
        stripped == IF Len(orZero) % 2 # 0 THEN <<"0">> \o orZero ELSE orZero
        numBytes == Len(stripped) \div 2
        coefficient == parseHex(padEnd(slice(stripped, 0, 6), 6, "0"))
        high == highBitSet(coefficient)
        exponent == (IF high THEN numBytes + 1 ELSE numBytes) % 256
    IN  (IF exponent >= 128 THEN exponent - 256 ELSE exponent) * 16777216
        + (IF high THEN coefficient \div 256 ELSE coefficient)

CallTargetToBitsOfTarget ==
    /\ call = "targetToBits(bitsToTarget)"
    /\ ret.threw = "pending"
    /\ ret' = Return(targetToBits(bitsToTarget(WordOf(args))))
    /\ UNCHANGED <<call, args, pageVars, romix>>

(* C14 as stated: for every word with exponent 4..32 and bit 23 clear,     *)
(* targetToBits(bitsToTarget(bits)) = bits.                                *)
C14_Original ==
    Called("targetToBits(bitsToTarget)") /\ ~args.negative
        /\ args.exponent \in 4..32
    => ret.value = WordOf(args)

\* the coefficient is normalised: its first byte is non-zero, or its second
\* byte has the top bit set
Normalised(coefficient) == coefficient >= 32768

(* C14: for every word with exponent 4..32, bit 23 clear and a normalised  *)
(* coefficient (at least 0x008000), targetToBits(bitsToTarget(bits)) =     *)
(* bits.                                                                   *)
C14_RoundTripNormalised ==
    Called("targetToBits(bitsToTarget)") /\ ~args.negative
        /\ args.exponent \in 4..32 /\ Normalised(args.coefficient)
    => ret.value = WordOf(args)

\* 0x1d00ffff was decoded and encoded again: the encoder took the branch
\* that shifts the coefficient
C14_Witness ==
    /\ Called("targetToBits(bitsToTarget)")
    /\ args = GenesisFields
    /\ ret.value = MAX_TARGET_BITS

----------------------------------------------------------------------------
(* Number: IEEE 754 double precision                                       *)
(*                                                                         *)
(* A finite Number is [kind |-> "finite", neg, m, e] and stands for        *)
(* m * 2^e (negated when neg), with m a BigInt that is odd or zero, so     *)
(* equal Numbers are equal records.  The values met here are far from the  *)
(* overflow and underflow thresholds, which are left out.                  *)

Infinity == [kind |-> "Infinity", neg |-> FALSE, m |-> <<>>, e |-> 0]

NaN == [kind |-> "NaN", neg |-> FALSE, m |-> <<>>, e |-> 0]

BitLength(a) ==
    IF a = <<>> THEN 0
    ELSE 4 * (Len(a) - 1)
         + (IF a[1] >= 8 THEN 4 ELSE IF a[1] >= 4 THEN 3
            ELSE IF a[1] >= 2 THEN 2 ELSE 1)

\* a * 2^n
BigShiftLeft(a, n) ==
    IF a = <<>> THEN <<>>
    ELSE BigMulSmall(a \o [k \in 1..(n \div 4) |-> 0], Pow2(n % 4))

\* floor(a / 2^n)
BigShiftRight(a, n) ==
    LET whole == SubSeq(a, 1, Len(a) - (n \div 4))
        wide == BigMulSmall(whole, Pow2(4 - (n % 4)))
    IN  SubSeq(wide, 1, Len(wide) - 1)

IsOdd(a) == a # <<>> /\ a[Len(a)] % 2 = 1

\* the number of zero bits at the low end of a # 0
TrailingZeroBits(a) ==
    LET nz == {k \in 1..Len(a) : a[k] # 0}
        last == CHOOSE k \in nz : \A j \in nz : j <= k
        d == a[last]
    IN  4 * (Len(a) - last)
        + (IF d % 2 = 1 THEN 0 ELSE IF d % 4 = 2 THEN 1
           ELSE IF d % 8 = 4 THEN 2 ELSE 3)

\* the Number m * 2^e, m >= 0
Finite(m, e) ==
    IF m = <<>> THEN [kind |-> "finite", neg |-> FALSE, m |-> <<>>, e |-> 0]
    ELSE LET z == TrailingZeroBits(m)
         IN  [kind |-> "finite", neg |-> FALSE, m |-> BigShiftRight(m, z),
              e |-> e + z]

significandTruncated(hi, low, half, sticky) == hi
\* round to nearest, ties to even
significand(hi, low, half, sticky) ==
    IF low > half \/ (low = half /\ (sticky \/ IsOdd(hi)))
    THEN BigAdd(hi, <<1>>) ELSE hi

\* the Number nearest to a / b for BigInt a >= 0, b > 0: the quotient is
\* taken with 55 or 56 bits and rounded to 53
\* the quotient x of t + 53 bits, with remainder rest, rounded to 53 bits
roundAt(x, rest, t, s) ==
    Finite(significand(BigShiftRight(x, t), x[Len(x)] % Pow2(t), Pow2(t - 1),
                       rest # <<>>),
           t - s)

roundQuotient(dm, s) == roundAt(dm[1], dm[2], BitLength(dm[1]) - 53, s)

\* a / b with the dividend or the divisor shifted by s bits
roundScaled(a, b, s) ==
    roundQuotient(BigDivMod(IF s >= 0 THEN BigShiftLeft(a, s) ELSE a,
                            IF s >= 0 THEN b ELSE BigShiftLeft(b, 0 - s)),
                  s)

RoundToDouble(a, b) ==
    IF a = <<>> THEN Finite(<<>>, 0)
    ELSE roundScaled(a, b, 55 - (BitLength(a) - BitLength(b)))

\* Number(big) of a BigInt >= 0
NumberOfBigInt(big) == RoundToDouble(big, <<1>>)

\* x / y for Numbers x >= 0 and y > 0 that are integers (e >= 0)
NumberDivide(x, y) ==
    RoundToDouble(BigShiftLeft(x.m, x.e), BigShiftLeft(y.m, y.e))

----------------------------------------------------------------------------
(* Difficulty *)

isZeroNever(big) == FALSE
isZero(big) == big = <<>>

bitsToDifficulty(bits) ==
    LET targetHex == bitsToTarget(bits)
        maxTargetHex == bitsToTarget(MAX_TARGET_BITS)
        tgt == BigIntFromHex(targetHex)
        maxTarget == BigIntFromHex(maxTargetHex)
    IN  IF isZero(tgt) THEN Return(Infinity)
        ELSE IF tgt = <<>> THEN Throw("RangeError")
        ELSE LET difficultyBig == BigDiv(BigMulSmall(maxTarget, 1000000), tgt)
             IN  Return(NumberDivide(NumberOfBigInt(difficultyBig),
                                     NumberOfBigInt(BigOfInt(1000000))))

\* the exponents bitsToDifficulty is called with: the shifted ones, the
\* smallest and a middle placed one, those around 0x1d, the last that fits,
\* the first that does not, the largest
DifficultyExponents == {0, 2, 3, 4, 16, 28, 29, 30, 32, 33, 255}

DifficultyFields == {f \in CompactFields : f.exponent \in DifficultyExponents}

CallBitsToDifficulty ==
    /\ call = "bitsToDifficulty"
    /\ ret.threw = "pending"
    /\ ret' = bitsToDifficulty(WordOf(args))
    /\ UNCHANGED <<call, args, pageVars, romix>>

\* a * b, b taken over its digits lo..hi
RECURSIVE BigMulRange(_, _, _, _)
BigMulRange(a, b, lo, hi) ==
    IF lo = hi THEN BigMulSmall(a, b[lo])
    ELSE LET mid == (lo + hi) \div 2
         IN  BigAdd(BigShiftLeft(BigMulRange(a, b, lo, mid), 4 * (hi - mid)),
                    BigMulRange(a, b, mid + 1, hi))

BigMul(a, b) == IF b = <<>> THEN <<>> ELSE BigMulRange(a, b, 1, Len(b))

\* x * y for a Number x and a finite Number y > 0
\* the product of the significands r with the exponent e, or an infinity
timesRounded(x, r, e) ==
    IF BitLength(r.m) + e > 1024
    THEN [Infinity EXCEPT !.kind = IF x.neg THEN "-Infinity" ELSE "Infinity"]
    ELSE [r EXCEPT !.e = IF r.m = <<>> THEN 0 ELSE e, !.neg = x.neg]

timesOf(x, y, r) == timesRounded(x, r, r.e + x.e + y.e)

NumberTimes(x, y) ==
    IF x.kind # "finite" THEN x
    ELSE timesOf(x, y, RoundToDouble(BigMul(x.m, y.m), <<1>>))

\* Math.floor(x); the result of a finite x is an integer, held as the BigInt
\* [neg, mag] that BigInt(x) makes of it
MathFloor(x) ==
    IF x.kind # "finite" THEN x
    ELSE IF x.e >= 0
         THEN [kind |-> "integer", neg |-> x.neg, mag |-> BigShiftLeft(x.m, x.e)]
         ELSE LET whole == BigShiftRight(x.m, 0 - x.e)
              IN  [kind |-> "integer", neg |-> x.neg,
                   mag |-> IF x.neg THEN BigAdd(whole, <<1>>) ELSE whole]

\* big.toString(16)
BigToString16(big) ==
    (IF big.neg /\ big.mag # <<>> THEN <<"-">> ELSE <<>>)
    \o (IF big.mag = <<>> THEN <<"0">>
        ELSE [k \in 1..Len(big.mag) |-> HexDigits[big.mag[k] + 1]])

\* BigInt('0x' + hex) accepts hex digits only
IsHexString(str) == \A k \in 1..Len(str) : \E d \in 1..16 : str[k] = HexDigits[d]

exceedsNever(big, maxTarget) == FALSE
exceeds(big, maxTarget) == BigLess(maxTarget, big)

\* lines 531-535: the clamp to the maximum target and the encoding
clampToMaxTarget(targetHex, maxTargetHex, maxTarget) ==
    IF ~IsHexString(targetHex) THEN Throw("SyntaxError")
    ELSE Return(targetToBits(IF exceeds(BigIntFromHex(targetHex), maxTarget)
                             THEN maxTargetHex ELSE targetHex))

\* lines 525-528: the division by the scaled difficulty and the hex string
targetOfScaled(scaled, maxTargetHex, maxTarget) ==
    IF scaled.kind # "integer" THEN Throw("RangeError")
    ELSE IF scaled.mag = <<>> THEN Throw("RangeError")
    ELSE clampToMaxTarget(
             padStart(BigToString16(
                          [neg |-> scaled.neg,
                           mag |-> BigDiv(BigMulSmall(maxTarget, 1000000),
                                          scaled.mag)]),
                      64, "0"),
             maxTargetHex, maxTarget)

\* line 524: BigInt(Math.floor(difficulty * 1000000))
scaleDifficulty(difficulty, maxTargetHex) ==
    targetOfScaled(MathFloor(NumberTimes(difficulty,
                                         NumberOfBigInt(BigOfInt(1000000)))),
                   maxTargetHex, BigIntFromHex(maxTargetHex))

difficultyToBits(difficulty) ==
    scaleDifficulty(difficulty, bitsToTarget(MAX_TARGET_BITS))

\* the Number written as the decimal n / 10^k
Decimal(n, k) == RoundToDouble(BigOfInt(n), BigMulSmall(<<1>>, k))

Negative(x) == [x EXCEPT !.neg = TRUE]

\* the difficulties difficultyToBits is called with: not finite; zero and
\* below; below 10^-6 and at it; below 1, 1, with a fraction; powers of two up
\* to one whose target is zero; one whose product with 10^6 is not finite
DifficultyChoices ==
    {NaN, Infinity, [Infinity EXCEPT !.kind = "-Infinity"],
     Finite(<<>>, 0), Negative(Finite(<<1>>, 0)), Negative(Decimal(5, 10)),
     Negative(Finite(<<1>>, 300)),
     Decimal(5, 10000000), Decimal(1, 1000000), Decimal(5, 10),
     Decimal(999999, 1000000), Finite(<<1>>, 0), Decimal(1000001, 1000000),
     Decimal(15, 10), Finite(<<1>>, 1), Finite(<<1>>, 8),
     Decimal(1000000, 1), Finite(<<1>>, 32), Finite(<<1>>, 240),
     Finite(<<1>>, 1010)}

CallDifficultyToBits ==
    /\ call = "difficultyToBits"
    /\ ret.threw = "pending"
    /\ ret' = difficultyToBits(args)
    /\ UNCHANGED <<call, args, pageVars, romix>>

IsPositiveFinite(x) == x.kind = "finite" /\ ~x.neg /\ x.m # <<>>

(* C16 as stated: difficultyToBits signals an error exactly when the       *)
(* difficulty is not positive or not finite (<= 0, NaN, an infinity), and  *)
(* returns a compact value without error for every positive finite         *)
(* difficulty.                                                             *)
C16_Original ==
    Called("difficultyToBits") =>
        (ret.threw = "none" <=> IsPositiveFinite(args))

\* q = floor(a / b): q * b <= a < q * b + b
IsFloorOfQuotient(q, a, b) ==
    LET qb == BigMul(q, b)
    IN  BigLeq(qb, a) /\ BigLess(a, BigAdd(qb, b))

Million == BigOfInt(1000000)

\* maxTarget * 10^6, with maxTarget = 0xffff * 256^26
ScaledMaxTarget == BigMul(CompactValue(65535, 29), Million)

One == Finite(<<1>>, 0)

\* |x - q / 10^6| <= 2^-52 * q / 10^6 for a finite Number x >= 0
WithinOneUlp(x, q) ==
    LET up == IF x.e < 0 THEN 0 - x.e ELSE 0
        scaledX == BigMulSmall(BigShiftLeft(x.m, x.e + up), 1000000)
        scaledQ == BigShiftLeft(q, up)
        diff == IF BigLess(scaledX, scaledQ) THEN BigSub(scaledQ, scaledX)
                ELSE BigSub(scaledX, scaledQ)
    IN  BigLeq(BigShiftLeft(diff, 52), scaledQ)

TargetValueOf(f) == BigIntFromHex(bitsToTarget(WordOf(f)))

(* C15 as stated: bitsToDifficulty(bits) equals                            *)
(* floor(maxTarget * 10^6 / target(bits)) / 10^6 when target(bits) is not  *)
(* zero, is exactly 1 for 0x1d00ffff, and is +Infinity exactly when        *)
(* target(bits) is zero.  A Number equals a quotient when it is the Number *)
(* nearest to it.                                                          *)
C15_Original ==
    Called("bitsToDifficulty") =>
        LET t == TargetValueOf(args)
            q == BigDiv(ScaledMaxTarget, t)
        IN  /\ ret.threw = "none"
            /\ ret.value = Infinity <=> t = <<>>
            /\ t # <<>> =>
                 /\ IsFloorOfQuotient(q, ScaledMaxTarget, t)
                 /\ ret.value = RoundToDouble(q, Million)
            /\ args = GenesisFields => ret.value = One

(* C15: with q = floor(maxTarget * 10^6 / target(bits)),                   *)
(* bitsToDifficulty(bits) is +Infinity exactly when target(bits) is zero,  *)
(* is exactly 1 for 0x1d00ffff, is the Number nearest to q / 10^6 when     *)
(* q < 2^53, and is within a relative error of 2^-52 of q / 10^6 for       *)
(* every non-zero target.                                                  *)
C15_DifficultyOfBits ==
    Called("bitsToDifficulty") =>
        LET t == TargetValueOf(args)
            q == BigDiv(ScaledMaxTarget, t)
        IN  /\ ret.threw = "none"
            /\ ret.value = Infinity <=> t = <<>>
            /\ t # <<>> =>
                 /\ IsFloorOfQuotient(q, ScaledMaxTarget, t)
                 /\ ret.value.kind = "finite"
                 /\ BitLength(q) <= 53 => ret.value = RoundToDouble(q, Million)
                 /\ WithinOneUlp(ret.value, q)
            /\ args = GenesisFields => ret.value = One

\* the difficulty of target 35 was computed: its scaled quotient has more
\* than 53 bits and the result is not the Number nearest to q / 10^6
C15_Witness ==
    /\ Called("bitsToDifficulty")
    /\ args = [exponent |-> 3, negative |-> FALSE, coefficient |-> 35]
    /\ ret.value.kind = "finite"
    /\ BitLength(BigDiv(ScaledMaxTarget, TargetValueOf(args))) > 53
    /\ ret.value # RoundToDouble(BigDiv(ScaledMaxTarget, TargetValueOf(args)),
                                 Million)

\* floor(x * 10^6) for a finite Number x > 0, in exact arithmetic
ExactScaled(x) ==
    LET p == BigMulSmall(x.m, 1000000)
    IN  IF x.e >= 0 THEN BigShiftLeft(p, x.e) ELSE BigShiftRight(p, 0 - x.e)

MaxTargetValue == CompactValue(65535, 29)

(* C17: whenever difficultyToBits returns a value, the target decoded from *)
(* it is at most maxTarget; and whenever                                   *)
(* maxTarget * 10^6 / floor(difficulty * 10^6) exceeds maxTarget, the      *)
(* value returned is exactly 0x1d00ffff.                                   *)
C17_NeverAboveMaxTarget ==
    Called("difficultyToBits") /\ ret.threw = "none" =>
        /\ BigLeq(BigIntFromHex(bitsToTarget(ret.value)), MaxTargetValue)
        /\ IsPositiveFinite(args) /\ ExactScaled(args) # <<>>
           /\ BigLess(MaxTargetValue,
                      BigDiv(ScaledMaxTarget, ExactScaled(args)))
           => ret.value = MAX_TARGET_BITS

\* the difficulty 0.5 was encoded: twice maxTarget was clamped
C17_Witness ==
    /\ Called("difficultyToBits")
    /\ args = Decimal(5, 10)
    /\ BigDiv(ScaledMaxTarget, ExactScaled(args))
         = BigMulSmall(MaxTargetValue, 2)
    /\ ret = Return(MAX_TARGET_BITS)

----------------------------------------------------------------------------
(* Hash comparison *)

\* 64-digit strings: k zeros, one digit, then one digit repeated
Hex64Choices ==
    {repeat("0", 64)} \cup
    {repeat("0", k) \o <<x>> \o repeat(y, 63 - k) :
        k \in {0, 1, 31, 62, 63}, x \in {"1", "a", "f"}, y \in {"0", "f"}}

\* the 64-digit string of the value of hex plus one
Succ64(hex) ==
    padStart(BigToString16([neg |-> FALSE,
                            mag |-> BigAdd(BigIntFromHex(hex), <<1>>)]),
             64, "0")

\* every pair of the strings above, and each string with its successor
HashTargetPairs ==
    (Hex64Choices \X Hex64Choices) \cup
    {<<Succ64(t), t>> : t \in (Hex64Choices \cup {GenesisTarget})
                                \ {repeat("f", 64)}}

CallHashMeetsTarget ==
    /\ call = "hashMeetsTarget"
    /\ ret.threw = "pending"
    /\ ret' = Return(hashMeetsTarget(args[1], args[2]))
    /\ UNCHANGED <<call, args, pageVars, romix>>

DigitValues(hex) == [k \in 1..Len(hex) |-> HexVal(hex[k])]

\* integer(d) <= integer(t) for strings of one length: the digit-wise
\* subtraction t - d ends without a borrow
Subtracts(d, t) ==
    BigSubRange(DigitValues(t), DigitValues(d), 1, Len(t), 0)[2] = 0

----------------------------------------------------------------------------
(* Header serialization *)

HexDigitsUpper == <<"0", "1", "2", "3", "4", "5", "6", "7",
                    "8", "9", "A", "B", "C", "D", "E", "F">>

IsHexDigit(c) == \E d \in 1..16 : c = HexDigits[d] \/ c = HexDigitsUpper[d]

DigitValue(c) ==
    CHOOSE d \in 0..15 : c = HexDigits[d + 1] \/ c = HexDigitsUpper[d + 1]

\* parseInt(str, 16) of a string of at most two characters: leading spaces
\* and a sign are skipped, a "0x" prefix is dropped, and the digits up to
\* the first character that is no hex digit are read; NaN without a digit
parseInt16(str) ==
    LET spaces == IF Len(str) >= 1 /\ str[1] = " "
                  THEN IF Len(str) >= 2 /\ str[2] = " " THEN 2 ELSE 1
                  ELSE 0
        s1 == SubSeq(str, spaces + 1, Len(str))
        signed == Len(s1) >= 1 /\ s1[1] \in {"-", "+"}
        s2 == IF signed THEN SubSeq(s1, 2, Len(s1)) ELSE s1
        s3 == IF Len(s2) = 2 /\ s2[1] = "0" /\ s2[2] \in {"x", "X"}
              THEN <<>> ELSE s2
        magnitude ==
            IF Len(s3) = 2 /\ IsHexDigit(s3[2])
            THEN 16 * DigitValue(s3[1]) + DigitValue(s3[2])
            ELSE DigitValue(s3[1])
    IN  IF s3 = <<>> \/ ~IsHexDigit(s3[1]) THEN NaN
        ELSE [kind |-> "integer",
              value |-> IF signed /\ s1[1] = "-" THEN 0 - magnitude
                        ELSE magnitude]

\* the value an element of a Uint8Array takes when x is stored in it
ToUint8Clamped(x) ==
    IF x.kind = "NaN" THEN 0 ELSE IF x.value < 0 THEN 0 ELSE x.value
ToUint8(x) == IF x.kind = "NaN" THEN 0 ELSE x.value % 256

\* hex.substr(from, 2)
substr2(hex, from) == SubSeq(hex, from + 1, Min(from + 2, Len(hex)))

\* the array has floor(hex.length / 2) elements; the store of the odd last
\* character falls outside it and is dropped
hexToBytes(hex) ==
    [k \in 1..(Len(hex) \div 2) |-> ToUint8(parseInt16(substr2(hex, 2 * (k - 1))))]

\* view.setUint32(offset, value, true): the four bytes of ToUint32(value),
\* lowest first; value is a signed 32-bit integer here
setUint32BigEndian(value) ==
    [k \in 1..4 |-> (value \div Pow2(8 * (4 - k))) % 256]
setUint32(value) == [k \in 1..4 |-> (value \div Pow2(8 * (k - 1))) % 256]

\* the loop `view.setUint8(offset + i, bytes[i] || 0)` for i < 32
hashFieldUnpadded(bytes) == SubSeq(bytes, 1, Min(32, Len(bytes)))
hashField(bytes) == [k \in 1..32 |-> IF k <= Len(bytes) THEN bytes[k] ELSE 0]

serializeBlockHeader(h) ==
    setUint32(h.version)
    \o hashField(hexToBytes(h.previousBlockHash))
    \o hashField(hexToBytes(h.merkleRoot))
    \o setUint32(h.timestamp)
    \o setUint32(h.bits)
    \o setUint32(h.nonce)

\* longest hash string handed to the serializer
MaxHexLen == 70

\* the hex string of length n with digits 7, e, 5, c, ...
HexOfLength(n) == [k \in 1..n |-> HexDigits[((7 * k) % 16) + 1]]

\* numbers stored in the 32-bit fields: 0xffffffff and 0x80000000 appear as
\* -1 and -2147483648
NonceChoices == {0, 1, 255, 256, 65536, 16777216, 2147483647, -1,
                 -2147483647 - 1}

\* headers: every length of previousBlockHash with a few of merkleRoot
\* (among them the one createBlockHeader makes of the default text), and
\* well-formed hashes with varying numeric fields
HeaderChoices ==
    [version : {VERSION}, previousBlockHash : {HexOfLength(n) : n \in 0..MaxHexLen},
     merkleRoot : {HexOfLength(n) : n \in {0, 1, 63, 64, 66}}
                  \cup {createBlockHeader(DefaultBlockData, <<>>, 0, 0).merkleRoot},
     timestamp : Timestamps, bits : {MAX_TARGET_BITS}, nonce : {0}]
    \cup
    [version : {VERSION, 1}, previousBlockHash : {repeat("a", 64)},
     merkleRoot : {HexOfLength(64)}, timestamp : Timestamps \cup {0},
     bits : {MAX_TARGET_BITS, CompactBits(255, TRUE, 8388607)},
     nonce : NonceChoices]

CallSerializeBlockHeader ==
    /\ call = "serializeBlockHeader"
    /\ ret.threw = "pending"
    /\ ret' = Return(serializeBlockHeader(args))
    /\ UNCHANGED <<call, args, pageVars, romix>>

\* byte k (from 1) that the hex string spells, 0 where it has no full byte
SuppliedByte(hex, k) ==
    IF 2 * k <= Len(hex) THEN 16 * HexVal(hex[2 * k - 1]) + HexVal(hex[2 * k])
    ELSE 0

(* C19: for previousBlockHash and merkleRoot hex strings of any length     *)
(* (empty, shorter or longer than 64) serializeBlockHeader returns exactly *)
(* 80 bytes; each hash field takes exactly 32 bytes, bytes supplied beyond *)
(* the 32nd are ignored and positions without a supplied byte are zero.    *)
C19_AlwaysEightyBytes ==
    Called("serializeBlockHeader") =>
        /\ Len(ret.value) = 80
        /\ \A k \in 1..Len(ret.value) : ret.value[k] \in 0..255
        /\ IsHexString(args.previousBlockHash) =>
             \A k \in 1..32 :
                ret.value[4 + k] = SuppliedByte(args.previousBlockHash, k)
        /\ IsHexString(args.merkleRoot) =>
             \A k \in 1..32 :
                ret.value[36 + k] = SuppliedByte(args.merkleRoot, k)

\* a header with 66 digits of previousBlockHash and an empty merkleRoot was
\* serialized
C19_Witness ==
    /\ Called("serializeBlockHeader")
    /\ Len(args.previousBlockHash) = 66
    /\ args.merkleRoot = <<>>
    /\ Len(ret.value) = 80
    /\ SubSeq(ret.value, 37, 68) = [k \in 1..32 |-> 0]

\* the signed 32-bit integer whose bytes, lowest first, start at offset
ReadInt32(bytes, offset) ==
    bytes[offset + 1]
    + 256 * (bytes[offset + 2]
             + 256 * (bytes[offset + 3]
                      + 256 * (IF bytes[offset + 4] >= 128
                               THEN bytes[offset + 4] - 256
                               ELSE bytes[offset + 4])))

(* C20: the layout is version at bytes 0-3, previousBlockHash at 4-35,     *)
(* merkleRoot at 36-67, timestamp at 68-71, bits at 72-75 and nonce at     *)
(* 76-79, the numbers as unsigned 32-bit little-endian; two headers that   *)
(* differ only in nonce agree in bytes 0-75, and nonces that differ modulo *)
(* 2^32 give different bytes 76-79.                                        *)
C20_Layout ==
    Called("serializeBlockHeader") =>
        /\ ReadInt32(ret.value, 0) = args.version
        /\ IsHexString(args.previousBlockHash) =>
             \A k \in 1..32 :
                ret.value[4 + k] = SuppliedByte(args.previousBlockHash, k)
        /\ IsHexString(args.merkleRoot) =>
             \A k \in 1..32 :
                ret.value[36 + k] = SuppliedByte(args.merkleRoot, k)
        /\ ReadInt32(ret.value, 68) = args.timestamp
        /\ ReadInt32(ret.value, 72) = args.bits
        /\ ReadInt32(ret.value, 76) = args.nonce
        /\ \A n \in NonceChoices :
              LET other == serializeBlockHeader([args EXCEPT !.nonce = n])
              IN  /\ SubSeq(other, 1, 76) = SubSeq(ret.value, 1, 76)
                  /\ n # args.nonce
                     => SubSeq(other, 77, 80) # SubSeq(ret.value, 77, 80)

\* a header with nonce 256 was serialized
C20_Witness ==
    /\ Called("serializeBlockHeader")
    /\ args.nonce = 256
    /\ args.version = VERSION
    /\ SubSeq(ret.value, 77, 80) = <<0, 1, 0, 0>>
    /\ SubSeq(ret.value, 1, 4) = <<0, 0, 0, 32>>

----------------------------------------------------------------------------
(* The hex codecs called on their own *)

\* bytes.map(b => b.toString(16).padStart(2, '0')).join('')
bytesToHex(bytes) ==
    [k \in 1..(2 * Len(bytes)) |->
        IF k % 2 = 1 THEN HexDigits[(bytes[(k + 1) \div 2] \div 16) + 1]
        ELSE HexDigits[(bytes[k \div 2] % 16) + 1]]

reverseBytes(bytes) == [k \in 1..Len(bytes) |-> bytes[Len(bytes) + 1 - k]]

reverseHex(hex) == bytesToHex(reverseBytes(hexToBytes(hex)))

\* longest string handed to the codecs
MaxCodecLen == 4

\* characters of the strings: hex digits in both cases, a letter that is no
\* hex digit, the "x" of a "0x" prefix, white space and the signs
CodecChars == {"0", "a", "F", "g", "x", " ", "-", "+"}

RECURSIVE StringsOfLength(_)
StringsOfLength(n) ==
    IF n = 0 THEN {<<>>}
    ELSE {Append(s, c) : s \in StringsOfLength(n - 1), c \in CodecChars}

CodecStrings == UNION {StringsOfLength(n) : n \in 0..MaxCodecLen}

CallHexToBytes ==
    /\ call = "hexToBytes"
    /\ ret.threw = "pending"
    /\ ret' = Return(hexToBytes(args))
    /\ UNCHANGED <<call, args, pageVars, romix>>

CallReverseHex ==
    /\ call = "reverseHex"
    /\ ret.threw = "pending"
    /\ ret' = Return(reverseHex(args))
    /\ UNCHANGED <<call, args, pageVars, romix>>

\* odd length, or a character that is no hex digit
Malformed(hex) ==
    Len(hex) % 2 = 1 \/ \E k \in 1..Len(hex) : ~IsHexDigit(hex[k])

(* C21 as stated: a hex string of odd length or with a character that is   *)
(* no hex digit makes hexToBytes, reverseHex and serializeBlockHeader      *)
(* signal InvalidEncoding.                                                 *)
C21_Original ==
    /\ (Called("hexToBytes") \/ Called("reverseHex"))
         => (Malformed(args) => ret.threw = "InvalidEncoding")
    /\ Called("serializeBlockHeader")
         => ((Malformed(args.previousBlockHash) \/ Malformed(args.merkleRoot))
             => ret.threw = "InvalidEncoding")

\* the byte parseInt and the Uint8Array store make of one pair of characters
PairByte(a, b) ==
    IF IsHexDigit(a)
    THEN IF IsHexDigit(b) THEN 16 * DigitValue(a) + DigitValue(b)
         ELSE DigitValue(a)
    ELSE IF a \in {" ", "+"} /\ IsHexDigit(b) THEN DigitValue(b)
    ELSE IF a = "-" /\ IsHexDigit(b) THEN (256 - DigitValue(b)) % 256
    ELSE 0

(* C21: the hex codecs signal nothing.  hexToBytes returns floor(length/2)  *)
(* bytes, one per pair of characters, and drops the last character of a    *)
(* string of odd length.  A pair of hex digits gives its value, a hex      *)
(* digit followed by another character gives the value of that digit, a    *)
(* space or "+" followed by a hex digit gives that digit, "-" followed by  *)
(* a hex digit d gives (256 - d) mod 256, and every other pair gives 0.    *)
(* reverseHex returns those bytes in reverse order, two lower-case digits  *)
(* each.                                                                   *)
C21_CodecsNeverSignal ==
    /\ Called("hexToBytes") =>
         /\ ret.threw = "none"
         /\ Len(ret.value) = Len(args) \div 2
         /\ \A k \in 1..Len(ret.value) :
               ret.value[k] = PairByte(args[2 * k - 1], args[2 * k])
    /\ Called("reverseHex") =>
         /\ ret.threw = "none"
         /\ Len(ret.value) = 2 * (Len(args) \div 2)
         /\ \A k \in 1..(Len(args) \div 2) :
               LET b == PairByte(args[2 * k - 1], args[2 * k])
                   at == Len(ret.value) - 2 * k
               IN  /\ ret.value[at + 1] = HexDigits[(b \div 16) + 1]
                   /\ ret.value[at + 2] = HexDigits[(b % 16) + 1]
    /\ Called("serializeBlockHeader") => ret.threw = "none"

\* "-a" followed by a dropped odd character
C21_Witness ==
    /\ Called("hexToBytes")
    /\ args = <<"-", "a", "F">>
    /\ ret = Return(<<246>>)

----------------------------------------------------------------------------
(* scrypt: Uint32Array arithmetic *)

\* An element of a Uint32Array is held as the signed 32-bit integer with the
\* same bit pattern; its two 16-bit halves are non-negative.
High16(w) == (w \div 65536) % 65536
Low16(w) == w % 65536

Word(hi, lo) == (IF hi >= 32768 THEN hi - 65536 ELSE hi) * 65536 + lo

\* a ^ b on 16-bit values
RECURSIVE Xor16(_, _)
Xor16(a, b) ==
    IF a = 0 THEN b
    ELSE IF b = 0 THEN a
    ELSE ((a + b) % 2) + 2 * Xor16(a \div 2, b \div 2)

\* a ^ b stored in a Uint32Array
Xor32(a, b) == Word(Xor16(High16(a), High16(b)), Xor16(Low16(a), Low16(b)))

\* (a + b) >>> 0; also the ToInt32 / ToUint32 of the sum inside R
Add32(a, b) ==
    Word((High16(a) + High16(b) + ((Low16(a) + Low16(b)) \div 65536)) % 65536,
         (Low16(a) + Low16(b)) % 65536)

\* the rotation by b < 16 of the word with halves hi and lo
RotateHalves(hi, lo, b) ==
    Word(((hi * Pow2(b)) % 65536) + (lo \div Pow2(16 - b)),
         ((lo * Pow2(b)) % 65536) + (hi \div Pow2(16 - b)))

\* R(a, b) of salsa20_8: ((a << b) | (a >>> (32 - b))) >>> 0
R(a, b) ==
    IF b < 16 THEN RotateHalves(High16(a), Low16(a), b)
    ELSE RotateHalves(Low16(a), High16(a), b - 16)

\* a & b for b >= 0
RECURSIVE BitAnd(_, _)
BitAnd(a, b) ==
    IF b = 0 THEN 0
    ELSE (a % 2) * (b % 2) + 2 * BitAnd(a \div 2, b \div 2)

\* the statements `x[t] ^= R(x[a] + x[b], s)` of one pass of the loop at
\* line 232, as <<t, a, b, s>>, in program order
SalsaRound ==
    << <<4, 0, 12, 7>>, <<8, 4, 0, 9>>, <<12, 8, 4, 13>>, <<0, 12, 8, 18>>,
       <<9, 5, 1, 7>>, <<13, 9, 5, 9>>, <<1, 13, 9, 13>>, <<5, 1, 13, 18>>,
       <<14, 10, 6, 7>>, <<2, 14, 10, 9>>, <<6, 2, 14, 13>>, <<10, 6, 2, 18>>,
       <<3, 15, 11, 7>>, <<7, 3, 15, 9>>, <<11, 7, 3, 13>>, <<15, 11, 7, 18>>,
       <<1, 0, 3, 7>>, <<2, 1, 0, 9>>, <<3, 2, 1, 13>>, <<0, 3, 2, 18>>,
       <<6, 5, 4, 7>>, <<7, 6, 5, 9>>, <<4, 7, 6, 13>>, <<5, 4, 7, 18>>,
       <<11, 10, 9, 7>>, <<8, 11, 10, 9>>, <<9, 8, 11, 13>>, <<10, 9, 8, 18>>,
       <<12, 15, 14, 7>>, <<13, 12, 15, 9>>, <<14, 13, 12, 13>>,
       <<15, 14, 13, 18>> >>

\* x[t] ^= R(x[a] + x[b], s)
SalsaStatement(x, st) ==
    [x EXCEPT ![st[1] + 1] =
        Xor32(@, R(Add32(x[st[2] + 1], x[st[3] + 1]), st[4]))]

\* statements lo..hi of the four passes (32 statements each), in order; the
\* first half has run before the second starts
RECURSIVE SalsaStatements(_, _, _)
SalsaStatements(x, lo, hi) ==
    IF lo = hi THEN SalsaStatement(x, SalsaRound[((lo - 1) % 32) + 1])
    ELSE LET first == SalsaStatements(x, lo, (lo + hi) \div 2)
         IN  IF Len(first) = Len(x)
             THEN SalsaStatements(first, ((lo + hi) \div 2) + 1, hi)
             ELSE first

\* the typed array of n elements that holds the values of f
ArrayOf(f, n) == SubSeq(f, 1, n)

\* the loop at line 253: B[i] = (B[i] + x[i]) >>> 0
AddWords(B, x) == ArrayOf([k \in 1..Len(B) |-> Add32(B[k], x[k])], Len(B))

\* B after salsa20_8(B), B a Uint32Array of 16 elements
salsa20_8(B) == AddWords(B, SalsaStatements(B, 1, 128))

\* the loops `X[j] ^= B[i * 16 + j]` and `B[k] ^= V[j][k]`
XorWords(X, Y) == ArrayOf([k \in 1..Len(X) |-> Xor32(X[k], Y[k])], Len(X))

\* the 16 elements of B from index block * 16
Block(B, block) == SubSeq(B, block * 16 + 1, block * 16 + 16)

\* the loop at line 268 from the given pass on; Y starts as the copy X of the last
\* block and grows by one block per pass, the last 16 elements being X
RECURSIVE blockMixLoop(_, _, _, _)
blockMixLoop(B, Y, pass, passes) ==
    IF pass = passes THEN SubSeq(Y, 17, Len(Y))
    ELSE blockMixLoop(B,
                      Y \o salsa20_8(XorWords(SubSeq(Y, Len(Y) - 15, Len(Y)),
                                              Block(B, pass))),
                      pass + 1, passes)

\* the loop at line 281: even blocks of Y first, then the odd ones
shuffle(Y, r) ==
    ArrayOf([k \in 1..Len(Y) |->
                IF (k - 1) \div 16 < r
                THEN Y[2 * ((k - 1) \div 16) * 16 + ((k - 1) % 16) + 1]
                ELSE Y[(2 * (((k - 1) \div 16) - r) + 1) * 16
                       + ((k - 1) % 16) + 1]],
            Len(Y))

\* B after scryptBlockMix(B, r)
scryptBlockMix(B, r) ==
    shuffle(blockMixLoop(B, Block(B, 2 * r - 1), 0, 2 * r), r)

\* Integerify: const j = B[(2 * r - 1) * 16] & (N - 1)
integerifyLastWord(B, N, r) == BitAnd(B[32 * r], N - 1)
integerify(B, N, r) == BitAnd(B[(2 * r - 1) * 16 + 1], N - 1)

\* scryptROMix entered: V = new Array(N), before the first loop
StartROMix(a) ==
    [pc |-> "fill", B |-> a.B, V |-> [k \in 1..a.N |-> <<>>], i |-> 0,
     applied |-> 0, picked |-> <<>>]

\* largest N is 2^MaxLogN (scryptHash uses N = 1024)
MaxLogN == 3

\* the word patterns of the blocks handed to scryptROMix
PatternWord(p, k) ==
    CASE p = 0 -> 0
      [] p = 1 -> k * 1000003 - 7
      [] OTHER -> Word((k * 4099 * p) % 65536, (k * 31337 + 65000) % 65536)

\* calls: r = 1 with three blocks, r = 2 with one; N a power of two up to
\* 2^MaxLogN, and 3
ROMixChoices ==
    {[B |-> ArrayOf([k \in 1..(32 * c[2]) |-> PatternWord(c[1], k)], 32 * c[2]),
      N |-> n, r |-> c[2]] :
        c \in {<<0, 1>>, <<1, 1>>, <<2, 1>>, <<3, 2>>},
        n \in {Pow2(e) : e \in 0..MaxLogN} \cup {3}}

\* one pass of the loop at line 295
ROMixFill ==
    /\ call = "scryptROMix"
    /\ romix.pc = "fill"
    /\ romix' = [romix EXCEPT
                    !.V[romix.i + 1] = romix.B,
                    !.B = scryptBlockMix(romix.B, args.r),
                    !.applied = @ + 1,
                    !.i = IF romix.i + 1 < args.N THEN romix.i + 1 ELSE 0,
                    !.pc = IF romix.i + 1 < args.N THEN "fill" ELSE "mix"]
    /\ UNCHANGED <<call, args, ret, pageVars>>

\* one pass of the loop at line 301; the function returns after the last
ROMixMix ==
    /\ call = "scryptROMix"
    /\ romix.pc = "mix"
    /\ romix' = [romix EXCEPT
                    !.B = scryptBlockMix(
                              XorWords(romix.B,
                                       romix.V[integerify(romix.B, args.N,
                                                          args.r) + 1]),
                              args.r),
                    !.picked = Append(@, integerify(romix.B, args.N, args.r)),
                    !.applied = @ + 1,
                    !.i = romix.i + 1,
                    !.pc = IF romix.i + 1 < args.N THEN "mix" ELSE "done"]
    /\ ret' = IF romix.i + 1 < args.N THEN ret ELSE Return(romix'.B)
    /\ UNCHANGED <<call, args, pageVars>>

\* N is a power of two
PowerOfTwo(n) == \E e \in 0..(MaxLogN + 1) : n = Pow2(e)

\* the fill loop has just ended
FillEnded == call = "scryptROMix" /\ romix.pc = "mix" /\ romix.i = 0

\* V[0] is the block passed in, each later entry is scryptBlockMix of the
\* one before, and the state is scryptBlockMix of the last
FilledInOrder ==
    /\ Len(romix.V) = args.N
    /\ romix.V[1] = args.B
    /\ \A k \in 1..(args.N - 1) :
          romix.V[k + 1] = scryptBlockMix(romix.V[k], args.r)
    /\ romix.B = scryptBlockMix(romix.V[args.N], args.r)
    /\ romix.applied = args.N

\* a pass of the second loop that picks entry j
MixesWith(j) ==
    /\ j \in 0..(args.N - 1)
    /\ romix'.picked = Append(romix.picked, j)
    /\ romix'.B = scryptBlockMix(XorWords(romix.B, romix.V[j + 1]), args.r)
    /\ romix'.applied = romix.applied + 1

(* C22 as stated: with N a power of two, V[i] holds the state after i      *)
(* BlockMix applications once the fill loop has ended and no entry of V is *)
(* altered afterwards; each of the N mix passes picks j as the last 32-bit *)
(* word of the state masked with N - 1 and replaces the state by           *)
(* BlockMix(state XOR V[j]); BlockMix is applied 2N times in all.          *)
C22_Original ==
    /\ []((FillEnded /\ PowerOfTwo(args.N)) => FilledInOrder)
    /\ [][(romix.pc = "mix" /\ PowerOfTwo(args.N))
            => /\ romix'.V = romix.V
               /\ MixesWith(romix.B[32 * args.r] % args.N)]_vars
    /\ []((romix.pc = "done" /\ PowerOfTwo(args.N))
            => romix.applied = 2 * args.N /\ Len(romix.picked) = args.N)

(* C22: as above, but j is element (2r - 1) * 16 of the state, the first   *)
(* 32-bit word of its last 64-byte block (the low-order word of the block   *)
(* read as a little-endian integer), masked with N - 1.                     *)
C22_ROMix ==
    /\ []((FillEnded /\ PowerOfTwo(args.N)) => FilledInOrder)
    /\ [][(romix.pc = "mix" /\ PowerOfTwo(args.N))
            => /\ romix'.V = romix.V
               /\ MixesWith(romix.B[(2 * args.r - 1) * 16 + 1] % args.N)]_vars
    /\ []((romix.pc = "done" /\ PowerOfTwo(args.N))
            => romix.applied = 2 * args.N /\ Len(romix.picked) = args.N)

\* a call with N = 8 and r = 2 has returned after picking at least four
\* different entries of V
C22_Witness ==
    /\ call = "scryptROMix"
    /\ romix.pc = "done"
    /\ args.N = 8
    /\ args.r = 2
    /\ romix.applied = 16
    /\ Cardinality({romix.picked[k] : k \in 1..Len(romix.picked)}) >= 4
    /\ ret = Return(romix.B)

----------------------------------------------------------------------------
(* Encoding a target and decoding it again *)

\* first digits of the targets
TargetHeads == {<<"1">>, <<"7">>, <<"8">>, <<"f">>,
                <<"7", "f", "f", "f", "f", "f">>,
                <<"8", "0", "0", "0", "0", "1">>,
                <<"1", "2", "3", "4", "5", "6", "7", "8", "9">>}

\* 64-digit targets: zero; every number of leading zeros, followed by one
\* of the heads and then by zeros or by f digits (low-order bytes that the
\* compact form drops)
TargetChoices ==
    {repeat("0", 64)}
    \cup {slice(repeat("0", zeros) \o head \o repeat(fill, 64), 0, 64) :
            zeros \in 0..63, head \in TargetHeads, fill \in {"0", "f"}}

CallBitsToTargetOfBits ==
    /\ call = "bitsToTarget(targetToBits)"
    /\ ret.threw = "pending"
    /\ ret' = Return(bitsToTarget(targetToBits(args)))
    /\ UNCHANGED <<call, args, pageVars, romix>>

(* C25 as stated: for every 64-digit target t, bitsToTarget(targetToBits(t)) *)
(* is numerically at most t.                                               *)
C25_Original ==
    Called("bitsToTarget(targetToBits)")
    => BigLeq(BigIntFromHex(ret.value), BigIntFromHex(args))

----------------------------------------------------------------------------
(* Overflow of the decoded target *)

\* zero when the sign flag is set
EffectiveCoefficient(f) == IF f.negative THEN 0 ELSE f.coefficient

\* coefficient * 256^(exponent - 3) is below 2^256
FitsIn256Bits(f) ==
    \/ EffectiveCoefficient(f) = 0
    \/ f.exponent <= 32
    \/ f.exponent = 33 /\ EffectiveCoefficient(f) <= 65535
    \/ f.exponent = 34 /\ EffectiveCoefficient(f) <= 255

(* C26 as stated: for every bits whose value coefficient * 256^(exponent-3) *)
(* fits in 256 bits, a zero effective coefficient at any exponent and      *)
(* exponent 33 with a coefficient up to 0xff among them, bitsToTarget      *)
(* returns exactly that value.                                             *)
C26_Original ==
    (Called("bitsToTarget") /\ FitsIn256Bits(args))
    => BigIntFromHex(ret.value)
         = (IF EffectiveCoefficient(args) = 0 THEN <<>>
            ELSE CompactValue(EffectiveCoefficient(args), args.exponent))

----------------------------------------------------------------------------
(* Difficulty information *)

\* 1 / x for a Number x >= 0
NumberReciprocal(x) ==
    IF x.kind = "NaN" THEN NaN
    ELSE IF x.kind = "Infinity" THEN Finite(<<>>, 0)
    ELSE IF x.m = <<>> THEN Infinity
    ELSE IF x.e >= 0 THEN RoundToDouble(<<1>>, BigShiftLeft(x.m, x.e))
    ELSE RoundToDouble(BigShiftLeft(<<1>>, 0 - x.e), x.m)

\* '0x' + bits.toString(16).padStart(8, '0') for 0 <= bits < 2^32
bitsHex(bits) ==
    <<"0", "x">>
    \o [k \in 1..8 |-> HexDigits[((bits \div Pow2(4 * (8 - k))) % 16) + 1]]

\* the record returned, lines 640-647; probability = 1 / expectedHashes
infoOfExpected(bits, targetHex, difficulty, expectedHashes) ==
    Return([bits |-> bits,
            bitsHex |-> bitsHex(bits),
            target |-> targetHex,
            difficulty |-> difficulty,
            expectedHashes |-> expectedHashes,
            probability |-> NumberReciprocal(expectedHashes)])

\* expectedHashes = difficulty * 4294967296, with the difficulty
\* bitsToDifficulty returned
difficultyInfo(bits, targetHex, difficulty) ==
    IF difficulty.threw # "none" THEN difficulty
    ELSE infoOfExpected(bits, targetHex, difficulty.value,
                        NumberTimes(difficulty.value, Finite(<<1>>, 32)))

calculateDifficultyInfo(bits) ==
    difficultyInfo(bits, bitsToTarget(bits), bitsToDifficulty(bits))

\* the fields of a compact word
FieldsOf(bits) ==
    [exponent |-> (bits \div 16777216) % 256,
     negative |-> ((bits \div 8388608) % 2) = 1,
     coefficient |-> bits % 8388608]

\* the words calculateDifficultyInfo is called with: the presets and the
\* words bitsToDifficulty is called with
InfoFields ==
    DifficultyFields \cup {FieldsOf(DIFFICULTY_PRESETS[k]) : k \in 1..5}

CallCalculateDifficultyInfo ==
    /\ call = "calculateDifficultyInfo"
    /\ ret.threw = "pending"
    /\ ret' = calculateDifficultyInfo(WordOf(args))
    /\ UNCHANGED <<call, args, pageVars, romix>>

(* C27 as stated: for every bits whose decoded target is not zero, the     *)
(* presets among them, bitsToDifficulty(bits) is strictly positive, and    *)
(* calculateDifficultyInfo gives expectedHashes > 0 and a finite           *)
(* probability.                                                            *)
C27_Original ==
    (Called("calculateDifficultyInfo")
     /\ BigIntFromHex(ret.value.target) # <<>>)
    => /\ IsPositiveFinite(ret.value.difficulty)
       /\ IsPositiveFinite(ret.value.expectedHashes)
       /\ ret.value.probability.kind = "finite"

----------------------------------------------------------------------------
(* Encoding a difficulty never eases it *)

\* difficulties of 1 and more in millionths: k stands for k / 10^6
MicroDifficulties == {1000000, 1000001, 1500000, 2000000, 256000000}

(* C28 as stated: for every difficulty d >= 1 that is a multiple of 10^-6, *)
(* the compact value returned by difficultyToBits(d) is never easier than  *)
(* requested: floor(maxTarget * 10^6 / target(difficultyToBits(d)))        *)
(* >= d * 10^6, or the target is zero and the difficulty infinite.         *)
C28_Original ==
    \A k \in MicroDifficulties :
        (Called("difficultyToBits") /\ args = Decimal(k, 1000000))
        => /\ ret.threw = "none"
           /\ \/ BigIntFromHex(bitsToTarget(ret.value)) = <<>>
              \/ BigLeq(BigOfInt(k),
                        BigDiv(ScaledMaxTarget,
                               BigIntFromHex(bitsToTarget(ret.value))))

----------------------------------------------------------------------------
FnInit ==
    /\ InitPage
    /\ ret = Pending
    /\ romix = NoROMix
    /\ \/ call = "bitsToTarget" /\ args \in CompactFields
       \/ call = "targetToBits(bitsToTarget)" /\ args \in CompactFields
       \/ call = "bitsToDifficulty" /\ args \in DifficultyFields
       \/ call = "difficultyToBits" /\ args \in DifficultyChoices
       \/ call = "hashMeetsTarget" /\ args \in HashTargetPairs
       \/ call = "serializeBlockHeader" /\ args \in HeaderChoices
       \/ call = "hexToBytes" /\ args \in CodecStrings
       \/ call = "bitsToTarget(targetToBits)" /\ args \in TargetChoices
       \/ call = "calculateDifficultyInfo" /\ args \in InfoFields
       \/ call = "reverseHex" /\ args \in CodecStrings

FnNext ==
    \/ CallBitsToTarget
    \/ CallTargetToBitsOfTarget
    \/ CallBitsToDifficulty
    \/ CallDifficultyToBits
    \/ CallHashMeetsTarget
    \/ CallSerializeBlockHeader
    \/ CallHexToBytes
    \/ CallReverseHex
    \/ CallBitsToTargetOfBits
    \/ CallCalculateDifficultyInfo

FnSpec == FnInit /\ [][FnNext]_vars

RomixInit ==
    /\ InitPage
    /\ call = "scryptROMix"
    /\ args \in ROMixChoices
    /\ ret = Pending
    /\ romix = StartROMix(args)

RomixNext ==
    \/ ROMixFill
    \/ ROMixMix

RomixSpec == RomixInit /\ [][RomixNext]_vars

====
